---- MODULE Spec2Model ----
(***************************************************************************)
(* aws-resource-id: the generic resource-ID engine of src/general.rs, the  *)
(* region type of src/region.rs and the older src/general_resource.rs.     *)
(*                                                                         *)
(* A Rust `str` is modelled as the sequence of its characters, each a      *)
(* Unicode code point; its bytes are the UTF-8 encoding of that sequence,  *)
(* and every length and index of the code is a byte length or a byte       *)
(* index, as in Rust.  A client picks a kind and an input string, hands    *)
(* the string to the kind's TryFrom<&str> and then uses what it got.       *)
(***************************************************************************)
EXTENDS Integers, Sequences, FiniteSets, TLC

VARIABLES
    target,   \* the kind (type name) whose constructor the client calls
    input,    \* the string handed to the constructor
    res,      \* Result of try_from(input)
    text,     \* Option: to_string() of the constructed value
    back,     \* Result of try_from(text)
    errtext,  \* Option: to_string() of the returned error
    copy,     \* Option: a Copy of the constructed value
    other,    \* Option: another kind, and the Result of its try_from on its
              \* prefix followed by the same unique part, or on input
    via,      \* Option: another entry point or the older file, and its
              \* Result on input
    wire,     \* Option: the string handed to the serializer
    into,     \* Option: String::from of the constructed value
    de,       \* Result of deserializing input
    unwire,   \* Result of deserializing wire
    input2,   \* a second string for the same kind
    input3,   \* a third string for the same kind
    res2,     \* Result of try_from(input2)
    res3,     \* Result of try_from(input3)
    ord,      \* Option: Ord::cmp of the first value with the second
    same,     \* Option: PartialEq::eq of the first value with the second
    pick,     \* Option: a region value the client names directly
    shown     \* Option: a rendering of a value, and the way it was made

\* The constructor's call and what follows from its one input.
basic == <<target, input, res, text, back, errtext, copy, other>>

\* The other entry points and the serialization boundary.
boundary == <<via, wire, into, de, unwire>>

\* Further values of the same kind and their comparison.
pairs == <<input2, input3, res2, res3, ord, same>>

\* A region value named directly.
regions == <<pick, shown>>

vars == <<basic, boundary, pairs, regions>>

(***************************************************************************)
(* Text: code points and UTF-8                                             *)
(***************************************************************************)

\* The printable ASCII characters in code order: U+0020..U+005F and
\* U+0061..U+007E (U+0060, the grave accent, cannot be written in a literal).
AsciiLow ==
    " !\"#$%&'()*+,-./0123456789:;<=>?@ABCDEFGHIJKLMNOPQRSTUVWXYZ[\\]^_"

AsciiHigh == "abcdefghijklmnopqrstuvwxyz{|}~"

CodePoint ==
    [c \in {SubSeq(AsciiLow, i, i) : i \in 1..Len(AsciiLow)}
            \cup {SubSeq(AsciiHigh, i, i) : i \in 1..Len(AsciiHigh)} |->
        IF \E i \in 1..Len(AsciiLow) : SubSeq(AsciiLow, i, i) = c
        THEN 31 + (CHOOSE i \in 1..Len(AsciiLow) : SubSeq(AsciiLow, i, i) = c)
        ELSE 96 + (CHOOSE i \in 1..Len(AsciiHigh) : SubSeq(AsciiHigh, i, i) = c)]

\* A string literal of the source as the sequence of its characters.
Str(lit) == [i \in 1..Len(lit) |-> CodePoint[SubSeq(lit, i, i)]]

\* char::len_utf8
len_utf8(c) ==
    IF c < 128 THEN 1 ELSE IF c < 2048 THEN 2 ELSE IF c < 65536 THEN 3 ELSE 4

\* char::encode_utf8
encode_utf8(c) ==
    IF c < 128 THEN <<c>>
    ELSE IF c < 2048 THEN <<192 + (c \div 64), 128 + (c % 64)>>
    ELSE IF c < 65536
        THEN <<224 + (c \div 4096), 128 + ((c \div 64) % 64), 128 + (c % 64)>>
    ELSE <<240 + (c \div 262144), 128 + ((c \div 4096) % 64),
           128 + ((c \div 64) % 64), 128 + (c % 64)>>

RECURSIVE as_bytes(_)
\* str::as_bytes
as_bytes(s) ==
    IF s = <<>> THEN <<>> ELSE encode_utf8(Head(s)) \o as_bytes(Tail(s))

RECURSIVE str_len(_)
\* str::len: the length in bytes
str_len(s) ==
    IF s = <<>> THEN 0 ELSE len_utf8(Head(s)) + str_len(Tail(s))

IsCont(b) == b >= 128 /\ b <= 191

RECURSIVE from_utf8(_)
\* std::str::from_utf8: the characters, or an error for bytes that are no UTF-8
from_utf8(bytes) ==
    IF bytes = <<>> THEN [ok |-> TRUE, str |-> <<>>]
    ELSE
        LET b0 == bytes[1]
            n == Len(bytes)
            width ==
                IF b0 < 128 THEN 1
                ELSE IF b0 >= 194 /\ b0 <= 223 THEN 2
                ELSE IF b0 >= 224 /\ b0 <= 239 THEN 3
                ELSE IF b0 >= 240 /\ b0 <= 244 THEN 4
                ELSE 0
            wellFormed ==
                /\ width > 0
                /\ n >= width
                /\ \A i \in 2..width : IsCont(bytes[i])
                /\ (b0 = 224 => bytes[2] >= 160)
                /\ (b0 = 237 => bytes[2] <= 159)
                /\ (b0 = 240 => bytes[2] >= 144)
                /\ (b0 = 244 => bytes[2] <= 143)
            c ==
                IF width = 1 THEN b0
                ELSE IF width = 2 THEN (b0 - 192) * 64 + (bytes[2] - 128)
                ELSE IF width = 3
                    THEN (b0 - 224) * 4096 + (bytes[2] - 128) * 64 + (bytes[3] - 128)
                ELSE (b0 - 240) * 262144 + (bytes[2] - 128) * 4096
                     + (bytes[3] - 128) * 64 + (bytes[4] - 128)
        IN  IF ~wellFormed THEN [ok |-> FALSE]
            ELSE
                LET rest == from_utf8(SubSeq(bytes, width + 1, n))
                IN  IF rest.ok THEN [ok |-> TRUE, str |-> <<c>> \o rest.str]
                    ELSE [ok |-> FALSE]

\* starts_with as a comparison that ignores the case of ASCII letters.
starts_with_IgnoreCase(s, pat) ==
    LET bs == as_bytes(s)
        bp == as_bytes(pat)
        low(b) == IF b >= 65 /\ b <= 90 THEN b + 32 ELSE b
    IN  /\ Len(bp) <= Len(bs)
        /\ \A i \in 1..Len(bp) : low(bs[i]) = low(bp[i])

\* starts_with as a comparison of the zipped bytes, which stops at the end
\* of the shorter string.
starts_with_Zip(s, pat) ==
    LET bs == as_bytes(s)
        bp == as_bytes(pat)
        n == IF Len(bs) < Len(bp) THEN Len(bs) ELSE Len(bp)
    IN  \A i \in 1..n : bs[i] = bp[i]

\* str::starts_with(&str): a comparison of bytes
starts_with(s, pat) ==
    LET bs == as_bytes(s)
        bp == as_bytes(pat)
    IN  Len(bp) <= Len(bs) /\ SubSeq(bs, 1, Len(bp)) = bp

RECURSIVE slice_from(_, _)
\* &s[k..]: the rest of s from byte k on; it panics when k is past the end
\* or inside a character
slice_from(s, k) ==
    IF k = 0 THEN [panic |-> FALSE, str |-> s]
    ELSE IF s = <<>> THEN [panic |-> TRUE]
    ELSE IF len_utf8(Head(s)) > k THEN [panic |-> TRUE]
    ELSE slice_from(Tail(s), k - len_utf8(Head(s)))

\* char::is_alphanumeric: letters and digits of any script (of the characters
\* above U+007F, the letters and digits the client uses).
is_alphanumeric(c) ==
    \/ c >= 48 /\ c <= 57
    \/ c >= 65 /\ c <= 90
    \/ c >= 97 /\ c <= 122
    \/ c \in {233, 1635}

\* char::is_ascii_alphanumeric
is_ascii_alphanumeric(c) ==
    \/ c >= 48 /\ c <= 57
    \/ c >= 65 /\ c <= 90
    \/ c >= 97 /\ c <= 122

\* str::trim_start and str::trim_end, of spaces
RECURSIVE trim_start(_)
trim_start(s) == IF s # <<>> /\ Head(s) = 32 THEN trim_start(Tail(s)) ELSE s

RECURSIVE trim_end(_)
trim_end(s) ==
    IF s # <<>> /\ s[Len(s)] = 32 THEN trim_end(SubSeq(s, 1, Len(s) - 1)) ELSE s

RECURSIVE fmt_usize(_)
\* Display of a usize: its decimal digits
fmt_usize(n) ==
    IF n < 10 THEN <<48 + n>> ELSE fmt_usize(n \div 10) \o <<48 + (n % 10)>>

(***************************************************************************)
(* The resource kinds: impl_resource_id!($type, $prefix, $doc)             *)
(***************************************************************************)

\* The instantiations of the macro, in the order of the source.
Instantiations ==
    <<
        [type |-> "AwsNetworkAclId", prefix |-> "acl-"],
        [type |-> "AwsAmiId", prefix |-> "ami-"],
        [type |-> "AwsCustomerGatewayId", prefix |-> "cgw-"],
        [type |-> "AwsElasticIpId", prefix |-> "eipalloc-"],
        [type |-> "AwsEfsFileSystemId", prefix |-> "fs-"],
        [type |-> "AwsEfsMountTargetId", prefix |-> "fsmt-"],
        [type |-> "AwsCloudFormationStackId", prefix |-> "stack-"],
        [type |-> "AwsElasticBeanstalkEnvironmentId", prefix |-> "e-"],
        [type |-> "AwsInstanceId", prefix |-> "i-"],
        [type |-> "AwsInternetGatewayId", prefix |-> "igw-"],
        [type |-> "AwsKeyPairId", prefix |-> "key-"],
        [type |-> "AwsLoadBalancerId", prefix |-> "elbv2-"],
        [type |-> "AwsNatGatewayId", prefix |-> "nat-"],
        [type |-> "AwsNetworkInterfaceId", prefix |-> "eni-"],
        [type |-> "AwsPlacementGroupId", prefix |-> "pg-"],
        [type |-> "AwsRdsInstanceId", prefix |-> "db-"],
        [type |-> "AwsRedshiftClusterId", prefix |-> "redshift-"],
        [type |-> "AwsRouteTableId", prefix |-> "rtb-"],
        [type |-> "AwsSecurityGroupId", prefix |-> "sg-"],
        [type |-> "AwsSnapshotId", prefix |-> "snap-"],
        [type |-> "AwsSubnetId", prefix |-> "subnet-"],
        [type |-> "AwsTargetGroupId", prefix |-> "tg-"],
        [type |-> "AwsTransitGatewayAttachmentId", prefix |-> "tgw-attach-"],
        [type |-> "AwsTransitGatewayId", prefix |-> "tgw-"],
        [type |-> "AwsVolumeId", prefix |-> "vol-"],
        [type |-> "AwsVpcId", prefix |-> "vpc-"],
        [type |-> "AwsVpnConnectionId", prefix |-> "vpn-"],
        [type |-> "AwsVpnGatewayId", prefix |-> "vgw-"]
    >>

\* The kinds of the first 25 instantiations alone.
Kinds_First25 == {Instantiations[i].type : i \in 1..25}

Kinds == {Instantiations[i].type : i \in 1..Len(Instantiations)}

PrefixTable ==
    [K \in Kinds |->
        Str((CHOOSE r \in {Instantiations[i] : i \in 1..Len(Instantiations)} :
                r.type = K).prefix)]

\* The VPN gateway kind given the prefix of the VPN connection kind.
PREFIX_SharedVpn(K) == IF K = "AwsVpnGatewayId" THEN Str("vpn-") ELSE PrefixTable[K]

\* $type::PREFIX
PREFIX(K) == PrefixTable[K]

\* The module path of the types of general.rs.
ModulePath == "aws_resource_id::general"

TypeNameTable == [K \in Kinds |-> Str(ModulePath \o "::" \o K)]

\* std::any::type_name::<$type>()
type_name(K) == TypeNameTable[K]

RECURSIVE split_last(_, _)
\* name.split(pat).last(): the matches of pat are taken from the left and do
\* not overlap; the last piece is what follows the last match
split_last(name, pat) ==
    LET n == Len(name)
        m == Len(pat)
        at == {i \in 1..(n - m + 1) : SubSeq(name, i, i + m - 1) = pat}
    IN  IF at = {} THEN name
        ELSE LET first == CHOOSE i \in at : \A j \in at : i <= j
             IN  split_last(SubSeq(name, first + m, n), pat)

ShortNameTable == [K \in Kinds |-> split_last(type_name(K), Str("::"))]

\* The type name left as std::any::type_name gives it, with its path.
short_type_name_FullPath(K) == type_name(K)

\* short_type_name::<$type>()
short_type_name(K) == ShortNameTable[K]

(***************************************************************************)
(* Values and errors                                                       *)
(***************************************************************************)

\* UniquePart::C8([u8; 8]) and UniquePart::C17([u8; 17])
C8(arr) == [variant |-> "C8", arr |-> arr]

C17(arr) == [variant |-> "C17", arr |-> arr]

\* as_slice giving 8 bytes of either variant.
as_slice_First8(part) == SubSeq(part.arr, 1, 8)

\* UniquePart::as_slice
as_slice(part) == part.arr

\* One struct shared by every kind.
Construct_Shared(K, part) == [type |-> "AwsAmiId", part |-> part]

\* The tuple struct $type(UniquePart): a value of the nominal type K.
Construct(K, part) == [type |-> K, part |-> part]

\* [0u8; n]
zeroed(n) == [i \in 1..n |-> 0]

\* <[u8]>::copy_from_slice: it panics unless both slices have the same length
copy_from_slice(arr, src) ==
    IF Len(arr) = Len(src) THEN [panic |-> FALSE, arr |-> src]
    ELSE [panic |-> TRUE]

WrongPrefix(p) == [variant |-> "WrongPrefix", expected |-> p]

IdLength(n) == [variant |-> "IdLength", actual |-> n]

NonAsciiAlphanumeric == [variant |-> "NonAsciiAlphanumeric"]

\* GeneralResourceError::new
GeneralResourceError_new(target_type, inp, error_detail) ==
    [target_type |-> target_type, input |-> inp, error_detail |-> error_detail]

\* Error::General(e), by #[from]
Error_General(e) == [variant |-> "General", source |-> e]

Ok(v) == [tag |-> "Ok", value |-> v]

Err(e) == [tag |-> "Err", error |-> e]

\* The call unwound: a panic.
Panic == [tag |-> "Panic"]

None == [tag |-> "None"]

Some(v) == [tag |-> "Some", value |-> v]

\* Iterator::all over s.chars()
chars_all_alphanumeric(s) == \A i \in 1..Len(s) : is_ascii_alphanumeric(s[i])

(***************************************************************************)
(* impl_resource_id!: the constructor and the renderings                   *)
(***************************************************************************)

\* The length check with 16 written for 17.
try_from_id_Sixteen(K, s, id) ==
    IF str_len(id) = 8
    THEN LET arr == copy_from_slice(zeroed(8), as_bytes(id))
         IN  IF arr.panic THEN Panic ELSE Ok(Construct(K, C8(arr.arr)))
    ELSE IF str_len(id) = 16
    THEN LET arr == copy_from_slice(zeroed(17), as_bytes(id))
         IN  IF arr.panic THEN Panic ELSE Ok(Construct(K, C17(arr.arr)))
    ELSE Err(Error_General(GeneralResourceError_new(
                short_type_name(K), s, IdLength(str_len(id)))))

\* The length check reporting the length of the whole input.
try_from_id_WholeLength(K, s, id) ==
    IF str_len(id) = 8
    THEN LET arr == copy_from_slice(zeroed(8), as_bytes(id))
         IN  IF arr.panic THEN Panic ELSE Ok(Construct(K, C8(arr.arr)))
    ELSE IF str_len(id) = 17
    THEN LET arr == copy_from_slice(zeroed(17), as_bytes(id))
         IN  IF arr.panic THEN Panic ELSE Ok(Construct(K, C17(arr.arr)))
    ELSE Err(Error_General(GeneralResourceError_new(
                short_type_name(K), s, IdLength(str_len(s)))))

\* try_from, from `let id` on: the length check and the construction
try_from_id(K, s, id) ==
    IF str_len(id) = 8
    THEN LET arr == copy_from_slice(zeroed(8), as_bytes(id))
         IN  IF arr.panic THEN Panic ELSE Ok(Construct(K, C8(arr.arr)))
    ELSE IF str_len(id) = 17
    THEN LET arr == copy_from_slice(zeroed(17), as_bytes(id))
         IN  IF arr.panic THEN Panic ELSE Ok(Construct(K, C17(arr.arr)))
    ELSE Err(Error_General(GeneralResourceError_new(
                short_type_name(K), s, IdLength(str_len(id)))))

\* try_from with the length check moved before the alphabet check.
try_from_LengthFirst(K, s) ==
    IF ~starts_with(s, PREFIX(K))
    THEN Err(Error_General(GeneralResourceError_new(
                short_type_name(K), s, WrongPrefix(PREFIX(K)))))
    ELSE
        LET tail == slice_from(s, str_len(PREFIX(K)))
        IN  IF tail.panic THEN Panic
            ELSE IF str_len(tail.str) \notin {8, 17}
            THEN Err(Error_General(GeneralResourceError_new(
                        short_type_name(K), s, IdLength(str_len(tail.str)))))
            ELSE IF ~chars_all_alphanumeric(tail.str)
            THEN Err(Error_General(GeneralResourceError_new(
                        short_type_name(K), s, NonAsciiAlphanumeric)))
            ELSE try_from_id(K, s, tail.str)

\* impl TryFrom<&str> for $type: the prefix check, the alphabet check, and
\* then the length check and the construction
try_from(K, s) ==
    IF ~starts_with(s, PREFIX(K))
    THEN Err(Error_General(GeneralResourceError_new(
                short_type_name(K), s, WrongPrefix(PREFIX(K)))))
    ELSE
        LET tail == slice_from(s, str_len(PREFIX(K)))
        IN  IF tail.panic THEN Panic
            ELSE IF ~chars_all_alphanumeric(tail.str)
            THEN Err(Error_General(GeneralResourceError_new(
                        short_type_name(K), s, NonAsciiAlphanumeric)))
            ELSE try_from_id(K, s, tail.str)

\* String::as_str: the same characters, borrowed
as_str(s) == s

\* The owned string trimmed before it is parsed.
try_from_String_Trim(K, s) == try_from(K, trim_end(trim_start(as_str(s))))

\* impl TryFrom<String> for $type
try_from_String(K, s) == try_from(K, as_str(s))

\* impl TryFrom<&String> for $type
try_from_RefString(K, s) == try_from(K, as_str(s))

\* impl FromStr for $type
from_str(K, s) == try_from(K, s)

\* Result::unwrap_or_default of std::str::from_utf8
from_utf8_unwrap_or_default(bytes) ==
    LET r == from_utf8(bytes) IN IF r.ok THEN r.str ELSE <<>>

\* Display with the unique part put in lower case.
fmt_Display_Lowercase(id) ==
    LET u == from_utf8_unwrap_or_default(as_slice(id.part))
    IN  PREFIX(id.type)
        \o [i \in 1..Len(u) |-> IF u[i] >= 65 /\ u[i] <= 90 THEN u[i] + 32 ELSE u[i]]

\* impl fmt::Display for $type
fmt_Display(id) ==
    PREFIX(id.type) \o from_utf8_unwrap_or_default(as_slice(id.part))

\* ToString::to_string
to_string(id) == fmt_Display(id)

\* #[error(...)] of GeneralResourceErrorDetail
fmt_ErrorDetail(d) ==
    IF d.variant = "WrongPrefix"
    THEN Str("incorrect prefix, expected \"") \o d.expected \o Str("\"")
    ELSE IF d.variant = "IdLength"
    THEN Str("the unique part must be 8 or 17, not ") \o fmt_usize(d.actual)
         \o Str(" characters long")
    ELSE Str("the unique part contains non ascii alphanumeric characters")

\* #[error(...)] of GeneralResourceError
fmt_GeneralResourceError(e) ==
    Str("failed to initialize ") \o e.target_type \o Str(" from \"") \o e.input
    \o Str("\": ") \o fmt_ErrorDetail(e.error_detail)

(***************************************************************************)
(* region.rs: AwsRegionId                                                  *)
(***************************************************************************)

\* enum AwsRegionId: the variants in the order of their declaration.
RegionVariants ==
    <<
        "AfSouth1", "ApEast1", "ApNortheast1", "ApNortheast2",
        "ApNortheast3", "ApSouth1", "ApSouth2", "ApSoutheast1",
        "ApSoutheast2", "ApSoutheast3", "ApSoutheast4", "CaCentral1",
        "CaWest1", "EuCentral1", "EuCentral2", "EuNorth1", "EuSouth1",
        "EuSouth2", "EuWest1", "EuWest2", "EuWest3", "IlCentral1",
        "MeCentral1", "MeSouth1", "SaEast1", "UsEast1", "UsEast2", "UsWest1",
        "UsWest2"
    >>

\* AwsRegionId::$variant
AwsRegionId(variant) == [type |-> "AwsRegionId", variant |-> variant]

\* The arms of the match of TryFrom<&str> for AwsRegionId, in their order.
TryFromArms ==
    <<
        [pattern |-> "af-south-1", variant |-> "AfSouth1"],
        [pattern |-> "ap-east-1", variant |-> "ApEast1"],
        [pattern |-> "ap-northeast-1", variant |-> "ApNortheast1"],
        [pattern |-> "ap-northeast-2", variant |-> "ApNortheast2"],
        [pattern |-> "ap-northeast-3", variant |-> "ApNortheast3"],
        [pattern |-> "ap-south-1", variant |-> "ApSouth1"],
        [pattern |-> "ap-south-2", variant |-> "ApSouth2"],
        [pattern |-> "ap-southeast-1", variant |-> "ApSoutheast1"],
        [pattern |-> "ap-southeast-2", variant |-> "ApSoutheast2"],
        [pattern |-> "ap-southeast-3", variant |-> "ApSoutheast3"],
        [pattern |-> "ap-southeast-4", variant |-> "ApSoutheast4"],
        [pattern |-> "ca-central-1", variant |-> "CaCentral1"],
        [pattern |-> "ca-west-1", variant |-> "CaWest1"],
        [pattern |-> "eu-central-1", variant |-> "EuCentral1"],
        [pattern |-> "eu-central-2", variant |-> "EuCentral2"],
        [pattern |-> "eu-north-1", variant |-> "EuNorth1"],
        [pattern |-> "eu-south-1", variant |-> "EuSouth1"],
        [pattern |-> "eu-south-2", variant |-> "EuSouth2"],
        [pattern |-> "eu-west-1", variant |-> "EuWest1"],
        [pattern |-> "eu-west-2", variant |-> "EuWest2"],
        [pattern |-> "eu-west-3", variant |-> "EuWest3"],
        [pattern |-> "il-central-1", variant |-> "IlCentral1"],
        [pattern |-> "me-central-1", variant |-> "MeCentral1"],
        [pattern |-> "me-south-1", variant |-> "MeSouth1"],
        [pattern |-> "sa-east-1", variant |-> "SaEast1"],
        [pattern |-> "us-east-1", variant |-> "UsEast1"],
        [pattern |-> "us-east-2", variant |-> "UsEast2"],
        [pattern |-> "us-west-1", variant |-> "UsWest1"],
        [pattern |-> "us-west-2", variant |-> "UsWest2"]
    >>

TryFromPatterns == [i \in 1..Len(TryFromArms) |-> Str(TryFromArms[i].pattern)]

\* The arms of the match of From<AwsRegionId> for &'static str, in their order.
IntoStrArms ==
    <<
        [variant |-> "AfSouth1", str |-> "af-south-1"],
        [variant |-> "ApEast1", str |-> "ap-east-1"],
        [variant |-> "ApNortheast1", str |-> "ap-northeast-1"],
        [variant |-> "ApNortheast2", str |-> "ap-northeast-2"],
        [variant |-> "ApNortheast3", str |-> "ap-northeast-3"],
        [variant |-> "ApSouth1", str |-> "ap-south-1"],
        [variant |-> "ApSouth2", str |-> "ap-south-2"],
        [variant |-> "ApSoutheast1", str |-> "ap-southeast-1"],
        [variant |-> "ApSoutheast2", str |-> "ap-southeast-2"],
        [variant |-> "ApSoutheast3", str |-> "ap-southeast-3"],
        [variant |-> "ApSoutheast4", str |-> "ap-southeast-4"],
        [variant |-> "CaCentral1", str |-> "ca-central-1"],
        [variant |-> "CaWest1", str |-> "ca-west-1"],
        [variant |-> "EuCentral1", str |-> "eu-central-1"],
        [variant |-> "EuCentral2", str |-> "eu-central-2"],
        [variant |-> "EuNorth1", str |-> "eu-north-1"],
        [variant |-> "EuSouth1", str |-> "eu-south-1"],
        [variant |-> "EuSouth2", str |-> "eu-south-2"],
        [variant |-> "EuWest1", str |-> "eu-west-1"],
        [variant |-> "EuWest2", str |-> "eu-west-2"],
        [variant |-> "EuWest3", str |-> "eu-west-3"],
        [variant |-> "IlCentral1", str |-> "il-central-1"],
        [variant |-> "MeCentral1", str |-> "me-central-1"],
        [variant |-> "MeSouth1", str |-> "me-south-1"],
        [variant |-> "SaEast1", str |-> "sa-east-1"],
        [variant |-> "UsEast1", str |-> "us-east-1"],
        [variant |-> "UsEast2", str |-> "us-east-2"],
        [variant |-> "UsWest1", str |-> "us-west-1"],
        [variant |-> "UsWest2", str |-> "us-west-2"]
    >>

\* RegionError(String)
RegionError(s) == [input |-> s]

\* Error::Region(e), by #[from]
Error_Region(e) == [variant |-> "Region", source |-> e]

\* The match made on s.trim().
region_try_from_Trim(s) ==
    LET t == trim_end(trim_start(s))
        hits == {i \in 1..Len(TryFromArms) : TryFromPatterns[i] = t}
    IN  IF hits # {}
        THEN Ok(AwsRegionId(TryFromArms[CHOOSE i \in hits : \A j \in hits : i <= j].variant))
        ELSE Err(Error_Region(RegionError(s)))

\* impl TryFrom<&str> for AwsRegionId: the first arm whose pattern is s, or
\* the fallback arm
region_try_from(s) ==
    LET hits == {i \in 1..Len(TryFromArms) : TryFromPatterns[i] = s}
    IN  IF hits # {}
        THEN Ok(AwsRegionId(TryFromArms[CHOOSE i \in hits : \A j \in hits : i <= j].variant))
        ELSE Err(Error_Region(RegionError(s)))

\* impl TryFrom<String> for AwsRegionId
region_try_from_String(s) == region_try_from(as_str(s))

\* impl TryFrom<&String> for AwsRegionId
region_try_from_RefString(s) == region_try_from(as_str(s))

\* impl FromStr for AwsRegionId
region_from_str(s) == region_try_from(s)

\* The match with the strings of the arms of EuWest1 and EuWest2 exchanged.
region_into_str_Swapped(region) ==
    LET v == IF region.variant = "EuWest1" THEN "EuWest2"
             ELSE IF region.variant = "EuWest2" THEN "EuWest1"
             ELSE region.variant
        hits == {i \in 1..Len(IntoStrArms) : IntoStrArms[i].variant = v}
    IN  Str(IntoStrArms[CHOOSE i \in hits : \A j \in hits : i <= j].str)

\* impl From<AwsRegionId> for &'static str
region_into_str(region) ==
    LET hits == {i \in 1..Len(IntoStrArms) : IntoStrArms[i].variant = region.variant}
    IN  Str(IntoStrArms[CHOOSE i \in hits : \A j \in hits : i <= j].str)

\* impl AsRef<str> for AwsRegionId
region_as_ref(region) == region_into_str(region)

\* Display writing the name of the variant, as the derived Debug does.
region_fmt_Display_Debug(region) == Str(region.variant)

\* impl fmt::Display for AwsRegionId
region_fmt_Display(region) == region_as_ref(region)

\* ToString::to_string of a region
region_to_string(region) == region_fmt_Display(region)

\* impl From<AwsRegionId> for String
region_into_String(region) == region_to_string(region)

\* The message with the input in quotes, as {0:?} gives it.
fmt_RegionError_Quoted(e) == Str("Unknown region: \"") \o e.input \o Str("\"")

\* #[error("Unknown region: {0}")] of RegionError
fmt_RegionError(e) == Str("Unknown region: ") \o e.input

\* #[error(transparent)] of Error
fmt_Error(e) ==
    IF e.variant = "General" THEN fmt_GeneralResourceError(e.source)
    ELSE fmt_RegionError(e.source)

(***************************************************************************)
(* The client's inputs                                                     *)
(***************************************************************************)

\* The longest unique part the client tries, in characters.
MaxSuffixLen == 18

\* Letters and digits of both cases, at the ends of their ranges.
FillPattern == Str("aZ0zA9")

Fill(n) == [i \in 1..n |-> FillPattern[((i - 1) % Len(FillPattern)) + 1]]

\* Characters put in place of one character of a unique part: the ASCII
\* neighbours of the digit and letter ranges ("!", "-", "/", ":", "@", "[",
\* U+0060, "{"), a non-ASCII letter (U+00E9), a non-ASCII digit (U+0663),
\* a three-byte character (U+20AC) and a letter ("q").
Probes == {33, 45, 47, 58, 64, 91, 96, 123, 233, 1635, 8364, 113}

Suffixes ==
    {Fill(n) : n \in 0..MaxSuffixLen}
    \cup {[Fill(n) EXCEPT ![p] = c] :
            <<n, p, c>> \in {t \in (1..MaxSuffixLen) \X (1..MaxSuffixLen) \X Probes :
                                t[2] \in {1, t[1]}}}

\* char::to_ascii_uppercase
to_ascii_uppercase(c) == IF c >= 97 /\ c <= 122 THEN c - 32 ELSE c

\* What the client may put where the prefix belongs: the prefix, the prefix
\* cut short, nothing, the prefix in upper case, the prefix after a space,
\* and the prefix with one letter changed.
PrefixVariants(K) ==
    LET P == PREFIX(K)
    IN  { P,
          SubSeq(P, 1, Len(P) - 1),
          <<>>,
          [i \in 1..Len(P) |-> to_ascii_uppercase(P[i])],
          <<32>> \o P,
          [P EXCEPT ![Len(P) - 1] = 120] }

Inputs(K) == {v \o s : v \in PrefixVariants(K), s \in Suffixes}

(***************************************************************************)
(* The client                                                              *)
(***************************************************************************)

\* Nothing called yet.
NothingYet ==
    /\ res = None
    /\ text = None
    /\ back = None
    /\ errtext = None
    /\ copy = None
    /\ other = None
    /\ via = None
    /\ wire = None
    /\ into = None
    /\ de = None
    /\ unwire = None
    /\ res2 = None
    /\ res3 = None
    /\ ord = None
    /\ same = None
    /\ shown = None

Init ==
    /\ target \in Kinds
    /\ input \in Inputs(target)
    /\ input2 = <<>>
    /\ input3 = <<>>
    /\ pick = None
    /\ NothingYet

\* $type::try_from(input)
TryFrom ==
    /\ res = None
    /\ res' = try_from(target, input)
    /\ UNCHANGED <<target, input, text, back, errtext, copy, other>>
    /\ UNCHANGED <<boundary, pairs, regions>>

\* id.to_string()
DisplayId ==
    /\ res.tag = "Ok"
    /\ text = None
    /\ text' = Some(to_string(res.value))
    /\ UNCHANGED <<target, input, res, back, errtext, copy, other>>
    /\ UNCHANGED <<boundary, pairs, regions>>

\* $type::try_from(id.to_string().as_str())
TryFromText ==
    /\ text # None
    /\ back = None
    /\ back' = try_from(target, text.value)
    /\ UNCHANGED <<target, input, res, text, errtext, copy, other>>
    /\ UNCHANGED <<boundary, pairs, regions>>

\* err.to_string()
ErrorToString ==
    /\ res.tag = "Err"
    /\ errtext = None
    /\ errtext' = Some(fmt_Error(res.error))
    /\ UNCHANGED <<target, input, res, text, back, copy, other>>
    /\ UNCHANGED <<boundary, pairs, regions>>

\* let copy = id;  (#[derive(Copy, Clone)])
Copy ==
    /\ res.tag = "Ok"
    /\ copy = None
    /\ copy' = Some(res.value)
    /\ UNCHANGED <<target, input, res, text, back, errtext, other>>
    /\ UNCHANGED <<boundary, pairs, regions>>

\* The unique part of the input, as text.
UniqueText == SubSeq(input, Len(PREFIX(target)) + 1, Len(input))

\* K2::try_from of K2's prefix followed by the same unique part
TryFromOtherKind(K2) ==
    /\ res.tag = "Ok"
    /\ other = None
    /\ other' = Some([kind |-> K2, res |-> try_from(K2, PREFIX(K2) \o UniqueText)])
    /\ UNCHANGED <<target, input, res, text, back, errtext, copy>>
    /\ UNCHANGED <<boundary, pairs, regions>>

Next ==
    \/ TryFrom
    \/ DisplayId
    \/ TryFromText
    \/ ErrorToString
    \/ Copy
    \/ \E K2 \in Kinds : TryFromOtherKind(K2)

Spec == Init /\ [][Next]_vars

(***************************************************************************)
(* The client of AwsRegionId                                               *)
(***************************************************************************)

\* The region codes the source knows, from either match.
KnownCodes ==
    {TryFromPatterns[i] : i \in 1..Len(TryFromArms)}
    \cup {Str(IntoStrArms[i].str) : i \in 1..Len(IntoStrArms)}

\* What the client may hand to the region constructor: a known code, and
\* the code in upper case, after a space, before a space, without its last
\* character, without its number, with a digit appended, with another
\* number; and strings that are no code at all.
RegionInputs ==
    UNION {
        LET n == Len(c)
        IN  { c,
              [i \in 1..n |-> to_ascii_uppercase(c[i])],
              <<32>> \o c,
              c \o <<32>>,
              SubSeq(c, 1, n - 1),
              SubSeq(c, 1, n - 2),
              c \o <<48>>,
              [c EXCEPT ![n] = 57] } : c \in KnownCodes }
    \cup {<<>>, Str("us-north-1"), Str("invalid-region")}

\* The client starts from a string, or from a region value it names.
InitRegion ==
    /\ target = "AwsRegionId"
    /\ \/ input \in RegionInputs /\ pick = None
       \/ input = <<>>
          /\ pick \in {Some(AwsRegionId(RegionVariants[i])) : i \in 1..Len(RegionVariants)}
    /\ input2 = <<>>
    /\ input3 = <<>>
    /\ NothingYet

\* AwsRegionId::try_from(input)
RegionTryFrom ==
    /\ res = None
    /\ res' = region_try_from(input)
    /\ UNCHANGED <<target, input, text, back, errtext, copy, other>>
    /\ UNCHANGED <<boundary, pairs, regions>>

\* region.to_string(), of the region parsed
RegionDisplay ==
    /\ res.tag = "Ok"
    /\ text = None
    /\ text' = Some(region_to_string(res.value))
    /\ UNCHANGED <<target, input, res, back, errtext, copy, other>>
    /\ UNCHANGED <<boundary, pairs, regions>>

\* The four renderings of a region value.
Renderings == {"Display", "AsRef", "IntoStr", "IntoString"}

render(how, region) ==
    CASE how = "Display" -> region_to_string(region)
      [] how = "AsRef" -> region_as_ref(region)
      [] how = "IntoStr" -> region_into_str(region)
      [] how = "IntoString" -> region_into_String(region)

\* pick.to_string(), pick.as_ref(), pick.into() as &str or as String
RegionRender(how) ==
    /\ pick # None
    /\ shown = None
    /\ shown' = Some([how |-> how, str |-> render(how, pick.value)])
    /\ UNCHANGED <<basic, boundary, pairs, pick>>

\* AwsRegionId::try_from of a rendering
RegionTryFromShown ==
    /\ shown # None
    /\ back = None
    /\ back' = region_try_from(shown.value.str)
    /\ UNCHANGED <<target, input, res, text, errtext, copy, other>>
    /\ UNCHANGED <<boundary, pairs, regions>>

NextRegion ==
    \/ RegionTryFrom
    \/ RegionDisplay
    \/ ErrorToString
    \/ \E how \in Renderings : RegionRender(how)
    \/ RegionTryFromShown

SpecRegion == InitRegion /\ [][NextRegion]_vars

(***************************************************************************)
(* The derived comparisons                                                 *)
(***************************************************************************)

\* core::cmp::Ordering
Less == "Less"

Equal == "Equal"

Greater == "Greater"

\* Ord::cmp of two integers (u8 bytes, isize discriminants)
cmp_int(a, b) == IF a < b THEN Less ELSE IF a = b THEN Equal ELSE Greater

\* ASCII letters taken as their lowercase.
to_ascii_lowercase(b) == IF b \in 65..90 THEN b + 32 ELSE b

\* Arrays compared by their first byte alone.
cmp_array_FirstByte(a, b) == cmp_int(a[1], b[1])

\* Ord for [u8; N]: the first position where the arrays differ decides
cmp_array(a, b) ==
    LET diff == {i \in 1..Len(a) : a[i] # b[i]}
    IN  IF diff = {}
        THEN Equal
        ELSE LET i == CHOOSE i \in diff : \A j \in diff : i <= j
             IN  cmp_int(a[i], b[i])

\* PartialEq for [u8; N]
eq_array(a, b) == \A i \in 1..Len(a) : a[i] = b[i]

\* The discriminant of a variant: its position in the declaration.
discriminant(part) == IF part.variant = "C8" THEN 0 ELSE 1

\* The slices compared byte by byte, whatever the variant; a slice that is
\* the beginning of the other one is the smaller.
cmp_UniquePart_Slices(a, b) ==
    LET x == as_slice(a)
        y == as_slice(b)
        n == IF Len(x) < Len(y) THEN Len(x) ELSE Len(y)
        c == cmp_array(SubSeq(x, 1, n), SubSeq(y, 1, n))
    IN  IF c # Equal THEN c ELSE cmp_int(Len(x), Len(y))

\* #[derive(Ord)] on UniquePart: the discriminants first, then the arrays
cmp_UniquePart(a, b) ==
    IF discriminant(a) # discriminant(b)
    THEN cmp_int(discriminant(a), discriminant(b))
    ELSE cmp_array(a.arr, b.arr)

\* #[derive(PartialOrd)] on UniquePart
partial_cmp_UniquePart(a, b) ==
    IF discriminant(a) # discriminant(b)
    THEN Some(cmp_int(discriminant(a), discriminant(b)))
    ELSE Some(cmp_array(a.arr, b.arr))

\* Equality that takes a letter and its other case as the same byte.
eq_UniquePart_IgnoreCase(a, b) ==
    /\ discriminant(a) = discriminant(b)
    /\ \A i \in 1..Len(a.arr) :
            to_ascii_lowercase(a.arr[i]) = to_ascii_lowercase(b.arr[i])

\* #[derive(PartialEq)] on UniquePart
eq_UniquePart(a, b) ==
    /\ discriminant(a) = discriminant(b)
    /\ eq_array(a.arr, b.arr)

\* #[derive(Ord)] on $type(UniquePart)
cmp(a, b) == cmp_UniquePart(a.part, b.part)

\* #[derive(PartialOrd)] on $type(UniquePart)
partial_cmp(a, b) == partial_cmp_UniquePart(a.part, b.part)

\* #[derive(PartialEq)] on $type(UniquePart)
eq(a, b) == eq_UniquePart(a.part, b.part)

(***************************************************************************)
(* The client that compares values of one kind                             *)
(***************************************************************************)

\* Unique parts of both lengths: neighbours, the two cases of a letter, the
\* ends of the alphabet, and a long one that begins as a short one does.
PairParts ==
    { Str("aaaaaaaa"), Str("aaaaaaab"), Str("Aaaaaaaa"), Str("zzzzzzzz"),
      Str("aaaaaaaaaaaaaaaaa"), Str("aaaaaaaaaaaaaaaaA"),
      Str("00000000000000000"), Str("zzzzzzzzzzzzzzzzz") }

PairInputs(K) == {PREFIX(K) \o p : p \in PairParts}

InitPair ==
    /\ target \in Kinds
    /\ input \in PairInputs(target)
    /\ input2 \in PairInputs(target)
    /\ input3 \in PairInputs(target)
    /\ pick = None
    /\ NothingYet

\* $type::try_from(input2)
TryFrom2 ==
    /\ res # None
    /\ res2 = None
    /\ res2' = try_from(target, input2)
    /\ UNCHANGED <<basic, boundary, input2, input3, res3, ord, same, regions>>

\* $type::try_from(input3)
TryFrom3 ==
    /\ res2 # None
    /\ res3 = None
    /\ res3' = try_from(target, input3)
    /\ UNCHANGED <<basic, boundary, input2, input3, res2, ord, same, regions>>

\* The three values compared with one another: a.cmp(&b), a.partial_cmp(&b)
Compare ==
    /\ res.tag = "Ok" /\ res2.tag = "Ok" /\ res3.tag = "Ok"
    /\ ord = None
    /\ LET a == res.value
           b == res2.value
           c == res3.value
       IN  ord' = Some([aa |-> cmp(a, a), ab |-> cmp(a, b), ba |-> cmp(b, a),
                        bc |-> cmp(b, c), ac |-> cmp(a, c),
                        partial |-> partial_cmp(a, b)])
    /\ UNCHANGED <<basic, boundary, input2, input3, res2, res3, same, regions>>

\* The three values tested for equality: a == b
AreEqual ==
    /\ res.tag = "Ok" /\ res2.tag = "Ok" /\ res3.tag = "Ok"
    /\ same = None
    /\ LET a == res.value
           b == res2.value
           c == res3.value
       IN  same' = Some([aa |-> eq(a, a), ab |-> eq(a, b), ba |-> eq(b, a),
                         bc |-> eq(b, c), ac |-> eq(a, c)])
    /\ UNCHANGED <<basic, boundary, input2, input3, res2, res3, ord, regions>>

NextPair ==
    \/ TryFrom
    \/ TryFrom2
    \/ TryFrom3
    \/ Compare
    \/ AreEqual

SpecPair == InitPair /\ [][NextPair]_vars

(***************************************************************************)
(* The derived comparison of AwsRegionId, and its client                   *)
(***************************************************************************)

\* The position of a variant in the declaration of the enum, from 0.
region_position(region) ==
    (CHOOSE i \in 1..Len(RegionVariants) : RegionVariants[i] = region.variant) - 1

\* The four US regions declared before all the others.
region_discriminant_UsFirst(region) ==
    LET i == region_position(region)
    IN  IF i > 24 THEN i - 25 ELSE i + 4

\* The discriminant of a fieldless variant: its position in the declaration
region_discriminant(region) == region_position(region)

\* #[derive(Ord)] on AwsRegionId
region_cmp(a, b) == cmp_int(region_discriminant(a), region_discriminant(b))

\* #[derive(PartialOrd)] on AwsRegionId
region_partial_cmp(a, b) == Some(cmp_int(region_discriminant(a), region_discriminant(b)))

\* The client parses two region codes.
InitRegionPair ==
    /\ target = "AwsRegionId"
    /\ input \in KnownCodes
    /\ input2 \in KnownCodes
    /\ input3 = <<>>
    /\ pick = None
    /\ NothingYet

\* AwsRegionId::try_from(input2)
RegionTryFrom2 ==
    /\ res # None
    /\ res2 = None
    /\ res2' = region_try_from(input2)
    /\ UNCHANGED <<basic, boundary, input2, input3, res3, ord, same, regions>>

\* a.cmp(&b), a.partial_cmp(&b), and the texts of both
RegionCompare ==
    /\ res.tag = "Ok" /\ res2.tag = "Ok"
    /\ ord = None
    /\ LET a == res.value
           b == res2.value
       IN  ord' = Some([ab |-> region_cmp(a, b), ba |-> region_cmp(b, a),
                        partial |-> region_partial_cmp(a, b),
                        a_str |-> region_to_string(a),
                        b_str |-> region_to_string(b)])
    /\ UNCHANGED <<basic, boundary, input2, input3, res2, res3, same, regions>>

NextRegionPair ==
    \/ RegionTryFrom
    \/ RegionTryFrom2
    \/ RegionCompare

SpecRegionPair == InitRegionPair /\ [][NextRegionPair]_vars

(***************************************************************************)
(* The client of the entry points                                          *)
(***************************************************************************)

\* The ways to construct a value from a string.
EntryPoints == {"&str", "String", "&String", "FromStr"}

\* T::try_from(s) for a &str, a String or a &String, and s.parse::<T>()
construct(entry, T, s) ==
    IF T = "AwsRegionId"
    THEN CASE entry = "&str" -> region_try_from(s)
           [] entry = "String" -> region_try_from_String(s)
           [] entry = "&String" -> region_try_from_RefString(s)
           [] entry = "FromStr" -> region_from_str(s)
    ELSE CASE entry = "&str" -> try_from(T, s)
           [] entry = "String" -> try_from_String(T, s)
           [] entry = "&String" -> try_from_RefString(T, s)
           [] entry = "FromStr" -> from_str(T, s)

InitEntry ==
    /\ target \in Kinds \cup {"AwsRegionId"}
    /\ input \in (IF target = "AwsRegionId" THEN RegionInputs ELSE Inputs(target))
    /\ input2 = <<>>
    /\ input3 = <<>>
    /\ pick = None
    /\ NothingYet

\* T::try_from(input), input a &str
EntryTryFrom ==
    /\ res = None
    /\ res' = construct("&str", target, input)
    /\ UNCHANGED <<target, input, text, back, errtext, copy, other>>
    /\ UNCHANGED <<boundary, pairs, regions>>

\* The same input through another entry point.
EntryCall(entry) ==
    /\ res # None
    /\ via = None
    /\ via' = Some([entry |-> entry, res |-> construct(entry, target, input)])
    /\ UNCHANGED <<basic, wire, into, de, unwire, pairs, regions>>

NextEntry ==
    \/ EntryTryFrom
    \/ \E entry \in EntryPoints \ {"&str"} : EntryCall(entry)

SpecEntry == InitEntry /\ [][NextEntry]_vars

(***************************************************************************)
(* The serialization boundary                                              *)
(***************************************************************************)

\* Serializer::serialize_str: a string of the serde data model
serialize_str(s) == [type |-> "str", value |-> s]

\* A number of the serde data model, which is no string.
serialize_u64(n) == [type |-> "u64", value |-> n]

\* String::deserialize: the characters of a string, an error of the format
\* for anything else
String_deserialize(data) ==
    IF data.type = "str"
    THEN Ok(data.value)
    ELSE Err([variant |-> "invalid_type", unexpected |-> data.type])

\* serde::de::Error::custom: the error of the format made of a message
de_Error_custom(e) == [variant |-> "custom", msg |-> fmt_Error(e)]

\* The unique part emitted without the prefix.
serialize_UniquePart(id) == serialize_str(from_utf8_unwrap_or_default(as_slice(id.part)))

\* impl serde::Serialize for $type
serialize(id) == serialize_str(to_string(id))

\* impl serde::Deserialize for $type
deserialize(K, data) ==
    LET s == String_deserialize(data)
    IN  IF s.tag = "Err"
        THEN s
        ELSE LET r == try_from_String(K, s.value)
             IN  IF r.tag = "Err" THEN Err(de_Error_custom(r.error)) ELSE r

\* impl From<$type> for String
into_String(id) == to_string(id)

(***************************************************************************)
(* The client of the serialization boundary                                *)
(***************************************************************************)

\* What a format hands to deserialize: the input as a string, or a number.
Data(s) == {serialize_str(s), serialize_u64(Len(s))}

\* id.serialize(serializer)
Serialize ==
    /\ res.tag = "Ok"
    /\ wire = None
    /\ wire' = Some(serialize(res.value))
    /\ UNCHANGED <<basic, via, into, de, unwire, pairs, regions>>

\* let s: String = id.into()
IntoString ==
    /\ res.tag = "Ok"
    /\ into = None
    /\ into' = Some(into_String(res.value))
    /\ UNCHANGED <<basic, via, wire, de, unwire, pairs, regions>>

\* $type::deserialize(deserializer), the deserializer holding data
Deserialize(data) ==
    /\ res # None
    /\ de = None
    /\ de' = Some([data |-> data, res |-> deserialize(target, data)])
    /\ UNCHANGED <<basic, via, wire, into, unwire, pairs, regions>>

\* $type::deserialize of what serialize emitted
DeserializeWire ==
    /\ wire # None
    /\ unwire = None
    /\ unwire' = deserialize(target, wire.value)
    /\ UNCHANGED <<basic, via, wire, into, de, pairs, regions>>

NextSerde ==
    \/ TryFrom
    \/ Serialize
    \/ IntoString
    \/ \E data \in Data(input) : Deserialize(data)
    \/ DeserializeWire

SpecSerde == Init /\ [][NextSerde]_vars

(***************************************************************************)
(* impl fmt::Debug for $type, and its client                               *)
(***************************************************************************)

\* char::escape_debug, of the characters of ASCII text: the double quote,
\* the backslash, the tab, the line feed and the carriage return take a
\* backslash; every other printable character stands for itself
escape_debug(c) ==
    CASE c = 34 -> Str("\\\"")
      [] c = 92 -> Str("\\\\")
      [] c = 9 -> Str("\\t")
      [] c = 10 -> Str("\\n")
      [] c = 13 -> Str("\\r")
      [] OTHER -> <<c>>

RECURSIVE escape_all(_)
\* the escaped characters of s, one after the other
escape_all(s) == IF s = <<>> THEN <<>> ELSE escape_debug(Head(s)) \o escape_all(Tail(s))

\* impl Debug for str: the escaped characters between double quotes
fmt_Debug_str(s) == Str("\"") \o escape_all(s) \o Str("\"")

\* DebugTuple::field and DebugTuple::finish with one field: name(field), or
\* with the alternate flag the field on a line of its own, indented by four
\* spaces and followed by a comma
debug_tuple(name, field, alternate) ==
    IF alternate
    THEN name \o Str("(") \o <<10>> \o Str("    ") \o field \o Str(",") \o <<10>> \o Str(")")
    ELSE name \o Str("(") \o field \o Str(")")

\* The field written as Display writes it, without quotes.
fmt_Debug_Unquoted(id, alternate) ==
    debug_tuple(short_type_name(id.type), to_string(id), alternate)

\* impl fmt::Debug for $type
fmt_Debug(id, alternate) ==
    debug_tuple(short_type_name(id.type), fmt_Debug_str(to_string(id)), alternate)

\* format!("{:?}", id) and format!("{:#?}", id)
DebugId(alternate) ==
    /\ res.tag = "Ok"
    /\ shown = None
    /\ shown' = Some([how |-> IF alternate THEN "{:#?}" ELSE "{:?}",
                      str |-> fmt_Debug(res.value, alternate)])
    /\ UNCHANGED <<basic, boundary, pairs, pick>>

NextDebug ==
    \/ TryFrom
    \/ DisplayId
    \/ \E alternate \in BOOLEAN : DebugId(alternate)

SpecDebug == Init /\ [][NextDebug]_vars

(***************************************************************************)
(* The client that hands one string to two kinds                           *)
(***************************************************************************)

\* K2::try_from(input), of the string the target kind accepted
TryFromSameInput(K2) ==
    /\ res.tag = "Ok"
    /\ K2 # target
    /\ other = None
    /\ other' = Some([kind |-> K2, res |-> try_from(K2, input)])
    /\ UNCHANGED <<target, input, res, text, back, errtext, copy>>
    /\ UNCHANGED <<boundary, pairs, regions>>

NextSame ==
    \/ TryFrom
    \/ \E K2 \in Kinds : TryFromSameInput(K2)

SpecSame == Init /\ [][NextSame]_vars

(***************************************************************************)
(* general_resource.rs: the older implementation, and its client           *)
(***************************************************************************)

\* impl_resource_id!($type, $prefix) of general_resource.rs
general_resource_Instantiations ==
    <<
        [type |-> "AwsAmiId", prefix |-> "ami-"],
        [type |-> "AwsSnapshotId", prefix |-> "snap-"]
    >>

general_resource_Kinds ==
    {general_resource_Instantiations[i].type :
        i \in 1..Len(general_resource_Instantiations)}

\* $type::PREFIX
general_resource_PREFIX(K) ==
    Str((CHOOSE r \in {general_resource_Instantiations[i] :
                            i \in 1..Len(general_resource_Instantiations)} :
            r.type = K).prefix)

\* std::any::type_name::<$type>(), the file taken as the module
\* general_resource of the crate
general_resource_type_name(K) == Str("aws_resource_id::general_resource::" \o K)

\* short_type_name::<$type>()
general_resource_short_type_name(K) ==
    split_last(general_resource_type_name(K), Str("::"))

\* AwsResourceId::C8
general_resource_C8(arr) == [variant |-> "C8", arr |-> arr]

\* AwsResourceId::C17
general_resource_C17(arr) == [variant |-> "C17", arr |-> arr]

\* AwsResourceId::as_slice
general_resource_as_slice(part) == part.arr

\* The tuple struct $type(AwsResourceId) of general_resource.rs
general_resource_Construct(K, part) ==
    [module |-> "general_resource", type |-> K, part |-> part]

\* ErrorDetail::WrongPrefix
general_resource_WrongPrefix(p) == [variant |-> "WrongPrefix", expected |-> p]

\* ErrorDetail::IdLength
general_resource_IdLength(n) == [variant |-> "IdLength", actual |-> n]

\* ErrorDetail::NonAsciiAlphanumeric
general_resource_NonAsciiAlphanumeric == [variant |-> "NonAsciiAlphanumeric"]

\* Error::new
general_resource_Error_new(target_type, inp, error_detail) ==
    [target_type |-> target_type, input |-> inp, error_detail |-> error_detail]

\* The length check and the construction.
general_resource_try_from_id(K, s, id) ==
    IF str_len(id) = 8
    THEN LET arr == copy_from_slice(zeroed(8), as_bytes(id))
         IN  IF arr.panic THEN Panic
             ELSE Ok(general_resource_Construct(K, general_resource_C8(arr.arr)))
    ELSE IF str_len(id) = 17
    THEN LET arr == copy_from_slice(zeroed(17), as_bytes(id))
         IN  IF arr.panic THEN Panic
             ELSE Ok(general_resource_Construct(K, general_resource_C17(arr.arr)))
    ELSE Err(general_resource_Error_new(
                general_resource_short_type_name(K), s,
                general_resource_IdLength(str_len(id))))

\* The older try_from with the length check moved before the alphabet check.
general_resource_try_from_LengthFirst(K, s) ==
    IF ~starts_with(s, general_resource_PREFIX(K))
    THEN Err(general_resource_Error_new(
                general_resource_short_type_name(K), s,
                general_resource_WrongPrefix(general_resource_PREFIX(K))))
    ELSE
        LET tail == slice_from(s, str_len(general_resource_PREFIX(K)))
        IN  IF tail.panic THEN Panic
            ELSE IF str_len(tail.str) \notin {8, 17}
            THEN Err(general_resource_Error_new(
                        general_resource_short_type_name(K), s,
                        general_resource_IdLength(str_len(tail.str))))
            ELSE IF ~chars_all_alphanumeric(tail.str)
            THEN Err(general_resource_Error_new(
                        general_resource_short_type_name(K), s,
                        general_resource_NonAsciiAlphanumeric))
            ELSE general_resource_try_from_id(K, s, tail.str)

\* impl TryFrom<&str> for $type of general_resource.rs: the prefix check, the
\* alphabet check, and then the length check and the construction
general_resource_try_from(K, s) ==
    IF ~starts_with(s, general_resource_PREFIX(K))
    THEN Err(general_resource_Error_new(
                general_resource_short_type_name(K), s,
                general_resource_WrongPrefix(general_resource_PREFIX(K))))
    ELSE
        LET tail == slice_from(s, str_len(general_resource_PREFIX(K)))
        IN  IF tail.panic THEN Panic
            ELSE IF ~chars_all_alphanumeric(tail.str)
            THEN Err(general_resource_Error_new(
                        general_resource_short_type_name(K), s,
                        general_resource_NonAsciiAlphanumeric))
            ELSE general_resource_try_from_id(K, s, tail.str)

\* impl fmt::Display for $type of general_resource.rs
general_resource_fmt_Display(id) ==
    general_resource_PREFIX(id.type)
    \o from_utf8_unwrap_or_default(general_resource_as_slice(id.part))

\* ToString::to_string
general_resource_to_string(id) == general_resource_fmt_Display(id)

\* The client picks a kind that both files define, and a string.
InitBoth ==
    /\ target \in Kinds \cap general_resource_Kinds
    /\ input \in Inputs(target)
    /\ input2 = <<>>
    /\ input3 = <<>>
    /\ pick = None
    /\ NothingYet

\* general_resource::$type::try_from(input)
GeneralResourceTryFrom ==
    /\ via = None
    /\ via' = Some([entry |-> "general_resource",
                    res |-> general_resource_try_from(target, input)])
    /\ UNCHANGED <<basic, wire, into, de, unwire, pairs, regions>>

\* id.to_string(), of the value of general_resource.rs
GeneralResourceDisplay ==
    /\ via # None
    /\ via.value.res.tag = "Ok"
    /\ shown = None
    /\ shown' = Some([how |-> "general_resource",
                      str |-> general_resource_to_string(via.value.res.value)])
    /\ UNCHANGED <<basic, boundary, pairs, pick>>

NextBoth ==
    \/ TryFrom
    \/ DisplayId
    \/ GeneralResourceTryFrom
    \/ GeneralResourceDisplay

SpecBoth == InitBoth /\ [][NextBoth]_vars

(***************************************************************************)
(* Properties                                                              *)
(***************************************************************************)

\* The ASCII letters and digits.
AsciiAlnum == (48..57) \cup (65..90) \cup (97..122)

\* s begins with the characters of P.
HasPrefix(s, P) == Len(s) >= Len(P) /\ SubSeq(s, 1, Len(P)) = P

\* What follows the first Len(P) characters of s.
After(s, P) == SubSeq(s, Len(P) + 1, Len(s))

AllAlnum(s) == \A i \in 1..Len(s) : s[i] \in AsciiAlnum

\* The reason of a returned error.
Reason(r) == r.error.source.error_detail

\* C1: parse succeeds if and only if the input is the kind's prefix followed
\* by exactly 8 or exactly 17 ASCII letters or digits, and the value then
\* holds exactly those characters as bytes, in the 8-byte variant for 8 and
\* the 17-byte variant for 17.
C1_ParseAcceptsExactly ==
    res # None =>
        LET P == PREFIX(target)
            u == After(input, P)
            wellFormed ==
                HasPrefix(input, P) /\ AllAlnum(u) /\ Len(u) \in {8, 17}
        IN  /\ res.tag = "Ok" <=> wellFormed
            /\ res.tag = "Ok" =>
                /\ res.value.part.arr = u
                /\ res.value.part.variant = (IF Len(u) = 8 THEN "C8" ELSE "C17")

C1_Witness ==
    /\ res.tag = "Ok"
    /\ res.value.part.variant = "C17"
    /\ Len(res.value.part.arr) = 17

\* C2: the text of a parsed value is the parsed string itself, character for
\* character, letters keeping their case.
C2_RoundTrip == text # None => text.value = input

C2_Witness ==
    /\ text # None
    /\ text.value = input
    /\ \E i \in 1..Len(input) : input[i] \in 65..90
    /\ \E i \in 1..Len(input) : input[i] \in 97..122
    /\ Len(After(input, PREFIX(target))) = 8

\* C3: parsing the text of a value that a parse produced succeeds and gives
\* a value equal to it.
C3_FormatRightInverse ==
    back # None => back.tag = "Ok" /\ res.tag = "Ok" /\ back.value = res.value

C3_Witness ==
    /\ back.tag = "Ok"
    /\ back.value = res.value
    /\ back.value.part.variant = "C17"

\* C4: an input that does not begin with the kind's prefix is rejected with
\* WrongPrefix carrying that prefix, whatever else is wrong with it.
C4_WrongPrefix ==
    (res # None /\ ~HasPrefix(input, PREFIX(target))) =>
        /\ res.tag = "Err"
        /\ Reason(res) = [variant |-> "WrongPrefix", expected |-> PREFIX(target)]

C4_Witness ==
    /\ res.tag = "Err"
    /\ Reason(res).variant = "WrongPrefix"
    /\ Len(input) < Len(PREFIX(target))
    /\ Len(input) > 0

\* C5: an input with the prefix whose unique part holds a character that is
\* no ASCII letter or digit is rejected with NonAsciiAlphanumeric, whatever
\* the length of the unique part; IdLength is never reported for it.
C5_AlphabetBeforeLength ==
    (/\ res # None
     /\ HasPrefix(input, PREFIX(target))
     /\ ~AllAlnum(After(input, PREFIX(target)))) =>
        /\ res.tag = "Err"
        /\ Reason(res) = [variant |-> "NonAsciiAlphanumeric"]

C5_Witness ==
    /\ res.tag = "Err"
    /\ Reason(res).variant = "NonAsciiAlphanumeric"
    /\ HasPrefix(input, PREFIX(target))
    /\ Len(After(input, PREFIX(target))) \notin {8, 17}
    /\ str_len(After(input, PREFIX(target))) \notin {8, 17}
    /\ \E i \in 1..Len(input) : input[i] > 127

\* C6: an input with the prefix whose unique part is all ASCII letters and
\* digits but neither 8 nor 17 long is rejected with IdLength carrying the
\* number of its characters, 0 for the empty unique part.
C6_IdLength ==
    (/\ res # None
     /\ HasPrefix(input, PREFIX(target))
     /\ AllAlnum(After(input, PREFIX(target)))
     /\ Len(After(input, PREFIX(target))) \notin {8, 17}) =>
        /\ res.tag = "Err"
        /\ Reason(res) =
            [variant |-> "IdLength", actual |-> Len(After(input, PREFIX(target)))]

C6_Witness ==
    /\ res.tag = "Err"
    /\ Reason(res).variant = "IdLength"
    /\ Reason(res).actual = 0
    /\ input = PREFIX(target)

\* The values the client holds.
Held ==
    (IF res.tag = "Ok" THEN {res.value} ELSE {})
    \cup (IF back.tag = "Ok" THEN {back.value} ELSE {})
    \cup (IF copy # None THEN {copy.value} ELSE {})
    \cup (IF other # None /\ other.value.res.tag = "Ok"
          THEN {other.value.res.value} ELSE {})

ValidUniquePart(part) ==
    /\ Len(part.arr) \in {8, 17}
    /\ \A i \in 1..Len(part.arr) : part.arr[i] \in AsciiAlnum

U8 == 0..255

\* r is a success holding a whole value of kind K, or an error holding the
\* three fields of a General error, and nothing else.
WholeResult(r, K) ==
    \/ /\ r.tag = "Ok"
       /\ DOMAIN r = {"tag", "value"}
       /\ DOMAIN r.value = {"type", "part"}
       /\ r.value.type = K
       /\ r.value.part.variant \in {"C8", "C17"}
       /\ Len(r.value.part.arr) = (IF r.value.part.variant = "C8" THEN 8 ELSE 17)
       /\ \A i \in 1..Len(r.value.part.arr) : r.value.part.arr[i] \in U8
    \/ /\ r.tag = "Err"
       /\ DOMAIN r = {"tag", "error"}
       /\ r.error.variant = "General"
       /\ DOMAIN r.error.source = {"target_type", "input", "error_detail"}

\* C8: parse never panics: for every input, empty, shorter than the prefix
\* or holding multi-byte characters, every call returns either a whole value
\* or a structured error.
C8_ParseTotal ==
    /\ res # None => WholeResult(res, target)
    /\ back # None => WholeResult(back, target)
    /\ other # None => WholeResult(other.value.res, other.value.kind)

C8_Witness ==
    /\ res # None
    /\ WholeResult(res, target)
    /\ \E i \in 1..Len(input) : input[i] > 2047
    /\ HasPrefix(input, PREFIX(target))
    /\ str_len(input) > Len(input) + 1

Digits == "0123456789"

Digit(d) == Str(SubSeq(Digits, d + 1, d + 1))

\* The decimal numeral of n < 100.
Decimal(n) == IF n < 10 THEN Digit(n) ELSE Digit(n \div 10) \o Digit(n % 10)

\* The reason text of an error detail.
ReasonText(d) ==
    CASE d.variant = "WrongPrefix" ->
            Str("incorrect prefix, expected \"") \o d.expected \o Str("\"")
      [] d.variant = "IdLength" ->
            Str("the unique part must be 8 or 17, not ") \o Decimal(d.actual)
            \o Str(" characters long")
      [] d.variant = "NonAsciiAlphanumeric" ->
            Str("the unique part contains non ascii alphanumeric characters")

\* C9: every failed parse returns an error carrying the short name of the
\* target kind, the input verbatim and exactly one of the three reasons, and
\* it renders as: failed to initialize <Kind> from "<input>": <reason-text>.
C9_ErrorShape ==
    res.tag = "Err" =>
        LET e == res.error.source
            d == e.error_detail
        IN  /\ e.target_type = Str(target)
            /\ e.input = input
            /\ \/ d = [variant |-> "WrongPrefix", expected |-> PREFIX(target)]
               \/ d.variant = "IdLength" /\ DOMAIN d = {"variant", "actual"}
                    /\ d.actual \in Nat
               \/ d = [variant |-> "NonAsciiAlphanumeric"]
            /\ errtext # None =>
                errtext.value =
                    Str("failed to initialize ") \o Str(target) \o Str(" from \"")
                    \o input \o Str("\": ") \o ReasonText(d)

C9_Witness ==
    /\ res.tag = "Err"
    /\ errtext # None
    /\ Reason(res).variant = "IdLength"
    /\ Reason(res).actual = 18
    /\ target = "AwsAmiId"

\* C10: two values of different kinds are never equal, even when their
\* unique parts have the same length and the same bytes.
C10_Distinctness ==
    (/\ res.tag = "Ok"
     /\ other # None
     /\ other.value.res.tag = "Ok"
     /\ other.value.kind # target) =>
        other.value.res.value # res.value

C10_Witness ==
    /\ res.tag = "Ok"
    /\ other # None
    /\ other.value.res.tag = "Ok"
    /\ target = "AwsAmiId"
    /\ other.value.kind = "AwsVolumeId"
    /\ other.value.res.value.part = res.value.part
    /\ other.value.res.value # res.value

\* The region codes as the documentation lists them.
ListedRegions ==
    <<
        "af-south-1", "ap-east-1", "ap-northeast-1", "ap-northeast-2",
        "ap-northeast-3", "ap-south-1", "ap-south-2", "ap-southeast-1",
        "ap-southeast-2", "ap-southeast-3", "ap-southeast-4", "ca-central-1",
        "ca-west-1", "eu-central-1", "eu-central-2", "eu-north-1",
        "eu-south-1", "eu-south-2", "eu-west-1", "eu-west-2", "eu-west-3",
        "il-central-1", "me-central-1", "me-south-1", "sa-east-1",
        "us-east-1", "us-east-2", "us-west-1", "us-west-2"
    >>

ListedCodes == {Str(ListedRegions[i]) : i \in 1..Len(ListedRegions)}

\* C11: the region parse accepts exactly the 29 listed codes and rejects
\* every other string: no folding of case, no trimming, no partial match.
C11_RegionClosure ==
    /\ Cardinality(ListedCodes) = 29
    /\ (target = "AwsRegionId" /\ res # None) =>
            (res.tag = "Ok" <=> input \in ListedCodes)

C11_Witness ==
    /\ target = "AwsRegionId"
    /\ res.tag = "Err"
    /\ input = <<32>> \o Str("us-east-1")

RegionValues == {AwsRegionId(RegionVariants[i]) : i \in 1..Len(RegionVariants)}

\* C12: the enumeration has exactly 29 values with 29 pairwise distinct
\* codes; parsing the code of any value gives that value back, and the code
\* of the value parsed from any listed code is that code.
C12_RegionBijection ==
    /\ Len(RegionVariants) = 29
    /\ Cardinality(RegionValues) = 29
    /\ Cardinality({region_into_str(v) : v \in RegionValues}) = 29
    /\ (pick # None /\ back # None) => back = [tag |-> "Ok", value |-> pick.value]
    /\ (target = "AwsRegionId" /\ res # None /\ input \in ListedCodes) =>
            res.tag = "Ok"
    /\ (target = "AwsRegionId" /\ text # None) => text.value = input

C12_Witness ==
    /\ pick # None
    /\ pick.value.variant = "EuWest2"
    /\ back.tag = "Ok"
    /\ back.value = pick.value

\* C13: a failed region parse returns a region error carrying the input
\* unmodified, rendered as: Unknown region: <input>.
C13_RegionError ==
    (target = "AwsRegionId" /\ res.tag = "Err") =>
        /\ res.error = [variant |-> "Region", source |-> [input |-> input]]
        /\ errtext # None => errtext.value = Str("Unknown region: ") \o input

C13_Witness ==
    /\ target = "AwsRegionId"
    /\ res.tag = "Err"
    /\ errtext # None
    /\ input = Str("us-east-1") \o <<32>>

RECURSIVE Camel(_, _)
\* The name of the variant of a code: its words capitalised, its hyphens
\* dropped ("us-west-2" gives "UsWest2").  up: the next letter starts a word.
Camel(code, up) ==
    IF code = <<>> THEN <<>>
    ELSE IF Head(code) = 45 THEN Camel(Tail(code), TRUE)
    ELSE <<IF up /\ Head(code) \in 97..122 THEN Head(code) - 32 ELSE Head(code)>>
         \o Camel(Tail(code), FALSE)

\* The listed code of a variant.
CanonicalCode(variant) ==
    CHOOSE c \in ListedCodes : Camel(c, TRUE) = Str(variant)

\* C20: every rendering of every region value (Display, AsRef<str>,
\* Into<&'static str>, Into<String>) succeeds and is the listed code of the
\* value, in lower case with hyphens; so all four agree.
C20_RegionRenderings ==
    /\ \A v \in RegionValues : \E c \in ListedCodes : Camel(c, TRUE) = Str(v.variant)
    /\ shown # None =>
        /\ shown.value.str = CanonicalCode(pick.value.variant)
        /\ \A i \in 1..Len(shown.value.str) :
                shown.value.str[i] \in (97..122) \cup (48..57) \cup {45}

C20_Witness ==
    /\ shown # None
    /\ shown.value.how = "IntoString"
    /\ pick.value.variant = "EuCentral1"
    /\ shown.value.str = Str("eu-central-1")

\* C14: every entry point returns the same outcome on the same string:
\* TryFrom<String>, TryFrom<&String> and FromStr give the value, or the
\* error with its reason and its carried input, that TryFrom<&str> gives,
\* for every resource kind and for the region type.
C14_EntryPointsAgree == via # None => via.value.res = res

C14_Witness ==
    /\ via # None
    /\ via.value.entry = "&String"
    /\ via.value.res = res
    /\ res.tag = "Err"
    /\ target = "AwsAmiId"
    /\ Reason(res).variant = "NonAsciiAlphanumeric"

\* The lowercase letters a-z and the numbers 0-9.
LowercaseOrNumber == (48..57) \cup (97..122)

\* C15: the identifier part of every accepted resource ID is 8 or 17
\* characters, each a lowercase letter (a-z) or a number (0-9): parse
\* rejects any suffix that contains an uppercase letter.
C15_LowercaseOnly ==
    res.tag = "Ok" =>
        /\ Len(After(input, PREFIX(target))) \in {8, 17}
        /\ \A i \in 1..Len(as_slice(res.value.part)) :
                as_slice(res.value.part)[i] \in LowercaseOrNumber

\* The lexicographic comparison of two byte strings: the first position
\* where they differ decides, and a string that is the beginning of the
\* other one is the smaller.
RECURSIVE LexCmp(_, _)
LexCmp(x, y) ==
    CASE x = <<>> /\ y = <<>> -> "Equal"
      [] x = <<>> /\ y # <<>> -> "Less"
      [] x # <<>> /\ y = <<>> -> "Greater"
      [] OTHER -> IF Head(x) < Head(y) THEN "Less"
                  ELSE IF Head(x) > Head(y) THEN "Greater"
                  ELSE LexCmp(Tail(x), Tail(y))

\* The bytes of the unique part of a value.
Bytes(id) == id.part.arr

\* The order by length first and by bytes among equal lengths.
LengthThenLex(x, y) ==
    IF Len(x) < Len(y) THEN "Less"
    ELSE IF Len(x) > Len(y) THEN "Greater"
    ELSE LexCmp(x, y)

\* The statement of C16 as the specification words it: comparing any two
\* values of one kind gives the lexicographic byte comparison of their
\* unique parts.
C16_LexicographicOrder ==
    ord # None =>
        /\ ord.value.ab = LexCmp(Bytes(res.value), Bytes(res2.value))
        /\ ord.value.bc = LexCmp(Bytes(res2.value), Bytes(res3.value))
        /\ ord.value.ac = LexCmp(Bytes(res.value), Bytes(res3.value))

\* C16: comparing two values of one kind (Ord, and PartialOrd with it)
\* gives the lexicographic byte comparison of their unique parts when the
\* two have the same length, and the comparison of the lengths when they do
\* not, whatever the bytes are.
C16_LengthThenLexicographicOrder ==
    ord # None =>
        /\ ord.value.ab = LengthThenLex(Bytes(res.value), Bytes(res2.value))
        /\ ord.value.bc = LengthThenLex(Bytes(res2.value), Bytes(res3.value))
        /\ ord.value.ac = LengthThenLex(Bytes(res.value), Bytes(res3.value))
        /\ ord.value.partial = Some(ord.value.ab)

C16_Witness ==
    /\ ord # None
    /\ Len(Bytes(res.value)) = 8
    /\ Len(Bytes(res2.value)) = 17
    /\ LexCmp(Bytes(res.value), Bytes(res2.value)) = "Greater"
    /\ ord.value.ab = "Less"
    /\ Len(Bytes(res3.value)) = 17
    /\ ord.value.bc = "Greater"
    /\ LexCmp(Bytes(res2.value), Bytes(res3.value)) = "Greater"

\* x comes before y: the first byte where they differ is smaller in x.
Before(x, y) ==
    \E i \in 1..Len(x) :
        /\ x[i] < y[i]
        /\ \A j \in 1..(i - 1) : x[j] = y[j]

\* C17: within one kind a value with an 8-byte unique part sorts strictly
\* before a value with a 17-byte one; two values of equal length are ordered
\* by the first byte where they differ; and the relation is a strict total
\* order consistent with equality: nothing is before itself, a before b
\* excludes b before a, before is transitive, and two values are unordered
\* exactly when they are equal.
C17_OrderAcrossLengths ==
    ord # None =>
        LET a == Bytes(res.value)
            b == Bytes(res2.value)
            o == ord.value
        IN  /\ (Len(a) = 8 /\ Len(b) = 17) => (o.ab = "Less" /\ o.ba = "Greater")
            /\ (Len(a) = 17 /\ Len(b) = 8) => (o.ab = "Greater" /\ o.ba = "Less")
            /\ Len(a) = Len(b) =>
                    /\ o.ab = "Less" <=> Before(a, b)
                    /\ o.ab = "Greater" <=> Before(b, a)
            /\ o.aa = "Equal"
            /\ o.ab = "Less" <=> o.ba = "Greater"
            /\ o.ab = "Equal" <=> o.ba = "Equal"
            /\ (o.ab = "Less" /\ o.bc = "Less") => o.ac = "Less"
            /\ (o.ab = "Equal" /\ o.bc = "Equal") => o.ac = "Equal"
            /\ o.ab = "Equal" <=> a = b
            /\ same # None => (o.ab = "Equal" <=> same.value.ab)

C17_Witness ==
    /\ ord # None
    /\ same # None
    /\ Len(Bytes(res.value)) = 8
    /\ Len(Bytes(res2.value)) = 17
    /\ Len(Bytes(res3.value)) = 17
    /\ Bytes(res.value)[1] > Bytes(res2.value)[1]
    /\ ord.value.ab = "Less"
    /\ ord.value.bc = "Less"
    /\ ord.value.ac = "Less"

\* C18: two values of one kind are equal if and only if their unique parts
\* have the same length and the same bytes, case included, which is if and
\* only if their canonical strings are equal; two parses of the same valid
\* string are equal.
C18_StructuralEquality ==
    same # None =>
        LET a == res.value
            b == res2.value
        IN  /\ same.value.ab <=>
                    /\ Len(Bytes(a)) = Len(Bytes(b))
                    /\ \A i \in 1..Len(Bytes(a)) : Bytes(a)[i] = Bytes(b)[i]
            /\ same.value.ab <=> to_string(a) = to_string(b)
            /\ same.value.ab <=> same.value.ba
            /\ same.value.aa
            /\ input = input2 => same.value.ab
            /\ input2 = input3 => same.value.bc

C18_Witness ==
    /\ same # None
    /\ same.value.ab
    /\ input = input2
    /\ ~ same.value.bc
    /\ Len(input2) = Len(input3)
    /\ \E i \in 1..Len(input2) : input2[i] = input3[i] + 32

\* C19: serialize emits exactly the canonical string of the value, the one
\* Into<String> returns; deserialize of a string succeeds exactly when parse
\* of it succeeds, with the same value, and gives an error otherwise; and
\* deserialize of what serialize emitted gives the value back.
C19_SerdeBoundary ==
    /\ wire # None =>
            wire.value = [type |-> "str", value |-> PREFIX(target) \o Bytes(res.value)]
    /\ into # None => into.value = PREFIX(target) \o Bytes(res.value)
    /\ (de # None /\ de.value.data.type = "str") =>
            /\ de.value.data.value = input
            /\ de.value.res.tag = "Ok" <=> res.tag = "Ok"
            /\ res.tag = "Ok" => de.value.res = res
            /\ res.tag = "Err" =>
                    /\ de.value.res.tag = "Err"
                    /\ de.value.res.error.variant = "custom"
    /\ unwire # None => (unwire.tag = "Ok" /\ unwire.value = res.value)

C19_Witness ==
    /\ wire # None
    /\ into # None
    /\ unwire # None
    /\ de # None
    /\ de.value.data.type = "str"
    /\ de.value.res = res
    /\ unwire = res
    /\ \E i \in 1..Len(wire.value.value) : wire.value.value[i] \in 65..90

\* The statement of C21 as the specification words it: the set of defined
\* kinds, each with its own prefix literal, has exactly 25 members.
C21_TwentyFiveKinds ==
    /\ target \in Kinds
    /\ Cardinality(Kinds) = 25
    /\ Cardinality({PREFIX(K) : K \in Kinds}) = 25

\* C21: the resource-ID engine is instantiated for 28 resource kinds: the
\* set of defined kinds has exactly 28 members, each with a prefix literal
\* of its own, and a client can parse for each of them.
C21_TwentyEightKinds ==
    /\ target \in Kinds
    /\ Len(Instantiations) = 28
    /\ Cardinality(Kinds) = 28
    /\ Cardinality({PREFIX(K) : K \in Kinds}) = 28
    /\ \A i \in 1..Len(Instantiations) :
            /\ Instantiations[i].type \in Kinds
            /\ PREFIX(Instantiations[i].type) = Str(Instantiations[i].prefix)

C21_Witness ==
    /\ target = Instantiations[28].type
    /\ target \notin {Instantiations[i].type : i \in 1..25}
    /\ res.tag = "Ok"
    /\ HasPrefix(input, Str("vgw-"))

\* C22: the Debug rendering ({:?}) of a value is the short name of its kind,
\* an opening parenthesis, a double quote, the canonical string (prefix and
\* unique part), a double quote and a closing parenthesis, for every kind
\* and every constructed value.
C22_DebugRendering ==
    (shown # None /\ shown.value.how = "{:?}") =>
        /\ shown.value.str =
                Str(target) \o Str("(\"") \o PREFIX(target) \o Bytes(res.value)
                \o Str("\")")
        /\ text # None =>
                shown.value.str = Str(target) \o Str("(\"") \o text.value \o Str("\")")

C22_Witness ==
    /\ shown # None
    /\ shown.value.how = "{:?}"
    /\ text # None
    /\ target = "AwsAmiId"
    /\ Len(Bytes(res.value)) = 8
    /\ shown.value.str = Str("AwsAmiId(\"ami-") \o Bytes(res.value) \o Str("\")")

\* The pairs of different kinds where the prefix of the second begins the
\* prefix of the first.
NestedPrefixes ==
    {p \in Kinds \X Kinds : p[1] # p[2] /\ HasPrefix(PREFIX(p[1]), PREFIX(p[2]))}

\* C23: no string is accepted by the parse of two different kinds: the
\* prefixes are pairwise distinct; the one pair where a prefix begins another
\* is tgw- within tgw-attach-, and an ID of the longer kind handed to the
\* shorter kind is rejected with NonAsciiAlphanumeric; an accepted ID handed
\* to any other kind is rejected with WrongPrefix.
C23_KindUnambiguity ==
    /\ \A K1, K2 \in Kinds : K1 # K2 => PREFIX(K1) # PREFIX(K2)
    /\ NestedPrefixes = {<<"AwsTransitGatewayAttachmentId", "AwsTransitGatewayId">>}
    /\ (res.tag = "Ok" /\ other # None /\ other.value.kind # target) =>
            /\ other.value.res.tag = "Err"
            /\ Reason(other.value.res).variant =
                    (IF <<target, other.value.kind>> \in NestedPrefixes
                     THEN "NonAsciiAlphanumeric"
                     ELSE "WrongPrefix")

C23_Witness ==
    /\ res.tag = "Ok"
    /\ other # None
    /\ target = "AwsTransitGatewayAttachmentId"
    /\ other.value.kind = "AwsTransitGatewayId"
    /\ other.value.res.tag = "Err"
    /\ other.value.res.error.source.input = input
    /\ Reason(other.value.res).variant = "NonAsciiAlphanumeric"

\* C24: for any two region values a and b, a < b under the derived order
\* if and only if the canonical string of a is before the canonical string
\* of b in the lexicographic comparison of their bytes; and likewise for
\* equal and for greater.
C24_RegionOrderIsTextOrder ==
    ord # None =>
        /\ ord.value.ab = "Less" <=>
                LexCmp(as_bytes(ord.value.a_str), as_bytes(ord.value.b_str)) = "Less"
        /\ ord.value.ab = LexCmp(as_bytes(ord.value.a_str), as_bytes(ord.value.b_str))
        /\ ord.value.ba = LexCmp(as_bytes(ord.value.b_str), as_bytes(ord.value.a_str))
        /\ ord.value.partial = Some(ord.value.ab)
        /\ ord.value.a_str = input
        /\ ord.value.b_str = input2

C24_Witness ==
    /\ ord # None
    /\ ord.value.ab = "Less"
    /\ ord.value.a_str = Str("ap-south-2")
    /\ ord.value.b_str = Str("ap-southeast-1")
    /\ res.value.variant = "ApSouth2"
    /\ res2.value.variant = "ApSoutheast1"

\* C25: on the kinds that general.rs and general_resource.rs both define,
\* and for every input string, both accept or both reject; accepted values
\* have the same unique part and the same canonical string; rejections have
\* the same reason variant with the same data, the same carried input and
\* the same kind name.
C25_SameAsOlderFile ==
    /\ Kinds \cap general_resource_Kinds = {"AwsAmiId", "AwsSnapshotId"}
    /\ \A K \in Kinds \cap general_resource_Kinds :
            PREFIX(K) = general_resource_PREFIX(K)
    /\ (res # None /\ via # None) =>
            LET old == via.value.res
            IN  /\ old.tag = res.tag
                /\ res.tag \in {"Ok", "Err"}
                /\ res.tag = "Ok" =>
                        /\ old.value.part.variant = res.value.part.variant
                        /\ old.value.part.arr = res.value.part.arr
                        /\ old.value.type = res.value.type
                /\ res.tag = "Err" =>
                        /\ old.error.error_detail = Reason(res)
                        /\ old.error.input = res.error.source.input
                        /\ old.error.target_type = res.error.source.target_type
    /\ (text # None /\ shown # None) => shown.value.str = text.value

C25_Witness ==
    /\ res.tag = "Err"
    /\ via # None
    /\ via.value.res.tag = "Err"
    /\ target = "AwsSnapshotId"
    /\ via.value.res.error.error_detail = [variant |-> "NonAsciiAlphanumeric"]
    /\ HasPrefix(input, Str("snap-"))
    /\ Len(After(input, Str("snap-"))) \notin {8, 17}

====
